---- MODULE Spec2Model ----
(***************************************************************************)
(* State-machine model of objectserver/indexdbobjeng.go: the index.db      *)
(* object engine (indexDBEngine) and its object handles (indexDBObject).   *)
(*                                                                         *)
(* Strings whose characters matter (hashes, metadata values, payloads)     *)
(* are sequences of one-character strings.  Metadata maps are functions    *)
(* from a set of keys to such values; a nil map and an empty map are both  *)
(* the empty function (Go reads them alike).                               *)
(*                                                                         *)
(* internal.IndexDB, common.ParseDate, common.CanonicalTimestampFromTime,  *)
(* ObjHash and the ring are not part of the modelled file; they are        *)
(* modelled from their described contract and marked so in the model map.  *)
(***************************************************************************)
EXTENDS Integers, Sequences, FiniteSets, TLC

VARIABLES
    handles,      \* handle id -> indexDBObject fields
    live,         \* the handle ids in use: returned by New and not yet dropped
    store,        \* index database: hash -> record
    writers,      \* writer id -> the temporary file of an atomic file writer
    replaced,     \* history: the handles whose SetData abandoned a pending writer
    committed,    \* history: hash -> the commit the index database applied last
    last,         \* the call the last step made, its arguments and results
    reading,      \* handle id -> the Copy or CopyRange that has loaded and not
                  \* yet opened its file
    ringCount,    \* ring partition count given to the engine constructor
    ringPower,    \* ringPartPower the constructor derived from it
    partHash,     \* identity given to the partition derivation
    partPower,    \* RingPartPower given to the partition derivation
    partResult    \* the derived partition, as <<high 16 bits, low 16 bits>>

vars == <<handles, live, store, writers, replaced, committed, last, reading,
          ringCount, ringPower, partHash, partPower, partResult>>

objVars  == <<handles, live, store, writers, replaced, committed, last, reading>>
ringVars == <<ringCount, ringPower>>
partVars == <<partHash, partPower, partResult>>

----------------------------------------------------------------------------
(* Bounds of the model *)

MaxData    == 1     \* bytes written to one writer
MaxRingCount == 130 \* largest ring partition count tried

----------------------------------------------------------------------------
(* Characters, decimal strings *)

Digits == <<"0", "1", "2", "3", "4", "5", "6", "7", "8", "9">>

IsDigit(c) == \E i \in 1..10 : Digits[i] = c

DigitVal(c) == (CHOOSE i \in 1..10 : Digits[i] = c) - 1

RECURSIVE DigitsVal(_)
DigitsVal(s) ==
    IF s = <<>> THEN 0
    ELSE 10 * DigitsVal(SubSeq(s, 1, Len(s) - 1)) + DigitVal(s[Len(s)])

AllDigits(s) == s # <<>> /\ \A i \in 1..Len(s) : IsDigit(s[i])

\* strconv.Itoa for n >= 0
RECURSIVE Itoa(_)
Itoa(n) ==
    IF n < 10 THEN <<Digits[n + 1]>>
    ELSE Itoa(n \div 10) \o <<Digits[(n % 10) + 1]>>

\* strconv.ParseInt(s, 10, 64): optional sign, then one or more digits
ParseInt(s) ==
    LET signed == s # <<>> /\ s[1] \in {"+", "-"}
        body   == IF signed THEN Tail(s) ELSE s
    IN  IF AllDigits(body)
        THEN [ok |-> TRUE,
              val |-> IF signed /\ s[1] = "-" THEN 0 - DigitsVal(body)
                      ELSE DigitsVal(body)]
        ELSE [ok |-> FALSE, val |-> 0]

----------------------------------------------------------------------------
(* Ring partition power: indexDBEngineConstructor *)

\* math/bits.Len64: minimum number of bits needed to represent n
RECURSIVE Len64(_)
Len64(n) == IF n = 0 THEN 0 ELSE 1 + Len64(n \div 2)

RingPartPowerOf(count) == Len64(count)

----------------------------------------------------------------------------
(* Hashes and the partition derivation: indexDBEngine.New, fakelist path *)

HexLower == <<"0", "1", "2", "3", "4", "5", "6", "7",
              "8", "9", "a", "b", "c", "d", "e", "f">>
UpperLetters == <<"A", "B", "C", "D", "E", "F", "G">>
LowerLetters == <<"a", "b", "c", "d", "e", "f", "g">>

\* strings.ToLower, one character
ToLowerChar(c) ==
    IF \E i \in 1..Len(UpperLetters) : UpperLetters[i] = c
    THEN LowerLetters[CHOOSE i \in 1..Len(UpperLetters) : UpperLetters[i] = c]
    ELSE c

ToLower(s) == [i \in 1..Len(s) |-> ToLowerChar(s[i])]

\* encoding/hex accepts both cases of a-f
IsHexChar(c) == \E i \in 1..16 : HexLower[i] = ToLowerChar(c)

HexVal(c) == (CHOOSE i \in 1..16 : HexLower[i] = ToLowerChar(c)) - 1

\* hex.DecodeString: an error for an odd length or a non-hex character
HexDecodeOk(s) ==
    /\ Len(s) % 2 = 0
    /\ \A i \in 1..Len(s) : IsHexChar(s[i])

HexDecode(s) ==
    [i \in 1..(Len(s) \div 2) |-> 16 * HexVal(s[2 * i - 1]) + HexVal(s[2 * i])]

RECURSIVE Pow2(_)
Pow2(n) == IF n = 0 THEN 1 ELSE 2 * Pow2(n - 1)

\* upper := uint64(b[0])<<24 | uint64(b[1])<<16 | uint64(b[2])<<8 | uint64(b[3]),
\* held as <<bits 31..16, bits 15..0>> so that every intermediate value stays
\* below 2^31
UpperOf(hashBytes) ==
    <<hashBytes[1] * 256 + hashBytes[2], hashBytes[3] * 256 + hashBytes[4]>>

\* u >> s on the two halves, for a shift count s >= 0
ShiftRight(u, s) ==
    IF s >= 32 THEN <<0, 0>>
    ELSE IF s >= 16 THEN <<0, u[1] \div Pow2(s - 16)>>
    ELSE <<u[1] \div Pow2(s),
           (u[1] % Pow2(s)) * Pow2(16 - s) + (u[2] \div Pow2(s))>>

\* ringPart := int(upper >> (32 - indexDB.RingPartPower))
\* a faulty variant: the shift count off by one
RingPartOffByOne(hsh, power) ==
    ShiftRight(UpperOf(HexDecode(hsh)), (32 - power) + 1)

RingPartOf(hsh, power) == ShiftRight(UpperOf(HexDecode(hsh)), 32 - power)

\* the partition as one integer (it fits whenever power <= 31)
PartInt(p) == p[1] * 65536 + p[2]

----------------------------------------------------------------------------
(* Inputs of the object model *)

IdTail == <<"8", "f", "0", "0", "b", "2", "0", "4", "e", "9", "8", "0",
            "0", "9", "9", "8", "e", "c", "f", "8", "4", "2", "7", "e">>

\* d41d8cd98f00b204e9800998ecf8427e
IdA == <<"d", "4", "1", "d", "8", "c", "d", "9">> \o IdTail

\* the hash strings ObjHash may produce for the requests tried
ObjIds == {IdA}

\* the keys of the index database: every hash a handle may hold
StoreKeys == ObjIds \cup {ToLower(x) : x \in ObjIds}

KnownDevices == {"sda"}
DeviceInputs == {"sda", "sdx"}

\* partition count of the ring the engine was constructed with
EngineRingCount == 4

Keys == {"Content-Length", "X-Timestamp"}
KeyOrder == <<"Content-Length", "X-Timestamp">>     \* sorted, as json.Marshal emits

EmptyMap == [k \in {} |-> <<>>]

MetaOf(ts, cl) ==
    [k \in {x \in Keys : (IF x = "X-Timestamp" THEN ts ELSE cl) # <<>>} |->
        IF k = "X-Timestamp" THEN ts ELSE cl]

\* the metadata maps callers pass: <<>> stands for a key left out
MetaInputs ==
    {MetaOf(<<>>, <<>>),            \* no timestamp
     MetaOf(<<"1">>, <<"1">>),      \* timestamp 1, length 1
     MetaOf(<<"2">>, <<>>),         \* timestamp 2, no length
     MetaOf(<<"x">>, <<>>)}         \* a timestamp that does not parse

\* the handle ids requests are served with
HandleIds == {1}

\* the ids of the temporary files that may exist at one time
WriterIds == {1, 2}

\* the <<start, end>> ranges asked of CopyRange
RangeInputs == {<<0, 1>>}

DataBytes == {"a", "b"}

\* seconds the clock may show when New builds a listing
Clock == {2}

NanosPerSecond == 1000000000

----------------------------------------------------------------------------
(* Metadata: map access and JSON *)

Has(m, k) == k \in DOMAIN m

\* m[k] of a Go map: the empty string for a missing key
Get(m, k) == IF k \in DOMAIN m THEN m[k] ELSE <<>>

Tok(t, k, v) == [t |-> t, k |-> k, v |-> v]

RECURSIVE MarshalFrom(_, _)
MarshalFrom(m, i) ==
    IF i > Len(KeyOrder) THEN <<>>
    ELSE (IF KeyOrder[i] \in DOMAIN m
          THEN <<Tok("pair", KeyOrder[i], m[KeyOrder[i]])>>
          ELSE <<>>) \o MarshalFrom(m, i + 1)

\* json.Marshal(map[string]string): an object, keys in sorted order
Marshal(m) ==
    <<Tok("{", "", <<>>)>> \o MarshalFrom(m, 1) \o <<Tok("}", "", <<>>)>>

\* whether json.Unmarshal accepts the bytes as an object of strings
UnmarshalOk(b) ==
    /\ Len(b) >= 2
    /\ b[1].t = "{"
    /\ b[Len(b)].t = "}"
    /\ \A i \in 2..(Len(b) - 1) : b[i].t = "pair"

\* json.Unmarshal into an empty map
Unmarshal(b) ==
    LET ks == {b[i].k : i \in 2..(Len(b) - 1)}
    IN  [k \in ks |-> b[CHOOSE i \in 2..(Len(b) - 1) : b[i].k = k].v]

\* internal.MetadataHash: a digest of the map's contents
MetadataHash(m) == {<<k, m[k]>> : k \in DOMAIN m}

\* common.ParseDate on the timestamp strings tried: decimal seconds
ParseDateOk(s) == AllDigits(s)
ParseDate(s) == DigitsVal(s)

\* a faulty variant: seconds are passed where nanoseconds are meant
UnixSeconds(t) == t

\* time.Time.UnixNano
UnixNano(t) == t * NanosPerSecond

\* common.CanonicalTimestampFromTime
CanonicalTimestampFromTime(t) == Itoa(t)

\* ObjHash(vars, prefix, suffix): the identity of the request, a hex digest
\* of 32 characters, which the request carries here as its hash field
ObjHash(v) == v.hash

----------------------------------------------------------------------------
(* The index database (internal.IndexDB) and its atomic file writers *)

NoWriter == 0

NoPath == <<"", <<>>, 0>>
FakePath == <<"fakelist", <<>>, 0>>

\* the path the index database gives the file of a hash committed at a time
FilePath(hsh, timestamp) == <<"file", hsh, timestamp>>

NoRecord ==
    [present |-> FALSE, timestamp |-> 0, deletion |-> FALSE,
     metabytes |-> <<>>, path |-> NoPath, file |-> <<>>]

FreeWriter == [state |-> "free", owner |-> 0, data |-> <<>>]

IsOpen(ws, w) == w \in WriterIds /\ ws[w].state = "open"

\* AtomicFileWriter.Abandon: the temporary file is removed
Abandon(ws, w) == IF IsOpen(ws, w) THEN [ws EXCEPT ![w] = FreeWriter] ELSE ws

FreeIds(ws) == {w \in WriterIds : ws[w].state = "free"}

\* the id of the writer TempFile makes next
NextWriter(ws) == CHOOSE w \in FreeIds(ws) : \A x \in FreeIds(ws) : w <= x

\* IndexDB.TempFile: a new temporary file, written through its writer
TempFile(ws, h) ==
    [ws EXCEPT ![NextWriter(ws)] = [state |-> "open", owner |-> h, data |-> <<>>]]

\* IndexDB.Lookup(hash, 0): the record, or an error; mode "corrupt" returns
\* metadata bytes cut short
Lookup(st, hsh, mode) ==
    IF mode = "fail" \/ ~st[hsh].present
    THEN [timestamp |-> 0, deletion |-> FALSE, metabytes |-> <<>>,
          path |-> NoPath, err |-> "lookup"]
    ELSE [timestamp |-> st[hsh].timestamp, deletion |-> st[hsh].deletion,
          metabytes |-> IF mode = "corrupt"
                        THEN SubSeq(st[hsh].metabytes, 1, Len(st[hsh].metabytes) - 1)
                        ELSE st[hsh].metabytes,
          path |-> st[hsh].path, err |-> "nil"]

\* the writer's temporary file is gone: renamed into place, or removed
Consume(ws, w) == IF IsOpen(ws, w) THEN [ws EXCEPT ![w] = FreeWriter] ELSE ws

\* IndexDB.Commit: last writer wins by timestamp; a commit not newer than the
\* stored record is ignored; fail is a store failure.  The writer's temporary
\* file becomes the record's file, or is removed; the file of a record that
\* is replaced goes with it.
IndexCommit(st, ws, w, hsh, timestamp, deletion, metabytes, fail) ==
    IF fail
    THEN [store |-> st, writers |-> Consume(ws, w), err |-> "store"]
    ELSE IF st[hsh].present /\ st[hsh].timestamp >= timestamp
    THEN [store |-> st, writers |-> Consume(ws, w), err |-> "nil"]
    ELSE [store |-> [st EXCEPT ![hsh] =
                        [present |-> TRUE, timestamp |-> timestamp,
                         deletion |-> deletion, metabytes |-> metabytes,
                         path |-> IF IsOpen(ws, w)
                                  THEN FilePath(hsh, timestamp) ELSE NoPath,
                         file |-> IF IsOpen(ws, w) THEN ws[w].data ELSE <<>>]],
          writers |-> Consume(ws, w),
          err |-> "nil"]

\* os.Open(path): whether the file is there, and the bytes read from it
FileExists(st, path) ==
    /\ path[1] = "file"
    /\ st[path[2]].present
    /\ st[path[2]].path = path

FileData(st, path) == st[path[2]].file

\* whether the hash is a 32-character hex string lying in the partition
InPartition(hsh, part, power) ==
    /\ Len(hsh) = 32
    /\ HexDecodeOk(hsh)
    /\ PartInt(RingPartOf(hsh, power)) = part

StoreKeyOrder == <<IdA>>

RECURSIVE ListFrom(_, _, _, _)
ListFrom(st, part, power, i) ==
    IF i > Len(StoreKeyOrder) THEN <<>>
    ELSE (IF /\ StoreKeyOrder[i] \in DOMAIN st
             /\ st[StoreKeyOrder[i]].present
             /\ InPartition(StoreKeyOrder[i], part, power)
          THEN <<StoreKeyOrder[i]>>
          ELSE <<>>) \o ListFrom(st, part, power, i + 1)

\* IndexDB.List(partition): the records of the partition
List(st, part, power) == ListFrom(st, part, power, 1)

\* a record of one call made to the index database or to a writer; wopen:
\* whether w was an open writer of the calling handle when the call was made
Call(fn, w, wopen, hsh, timestamp, deletion, metabytes) ==
    [fn |-> fn, w |-> w, wopen |-> wopen, hash |-> hsh, timestamp |-> timestamp,
     deletion |-> deletion, metabytes |-> metabytes, metahash |-> {}]

OwnedOpen(ws, w, h) == IsOpen(ws, w) /\ ws[w].owner = h

----------------------------------------------------------------------------
(* indexDBObject: the fields of a handle, and its methods as functions of   *)
(* the state they read, giving the state they leave and what they return    *)

\* the zero value of indexDBObject
NoHandle ==
    [hash |-> <<>>, loaded |-> FALSE, timestamp |-> 0, deletion |-> FALSE,
     metadata |-> EmptyMap, path |-> NoPath, atomicFileWriter |-> NoWriter,
     fakebytes |-> <<>>]

\* strings.HasPrefix(vars["obj"], "fakelist")
HasFakelistPrefix(obj) == obj \in {"fakelist", "fakelist1"}

RECURSIVE Lines(_)
Lines(items) ==
    IF items = <<>> THEN <<>>
    ELSE Head(items) \o <<"\n">> \o Lines(Tail(items))

\* a faulty variant: the Content-Length leaves out the partition line
newLengthOfItems(st, v, power, now, listFail) ==
    IF HasFakelistPrefix(v.obj)
    THEN LET hsh == ToLower(ObjHash(v)) IN
         IF Len(hsh) # 32
         THEN [ok |-> FALSE, err |-> "invalid hash length", hd |-> NoHandle,
               calls |-> <<>>]
         ELSE IF ~HexDecodeOk(hsh)
         THEN [ok |-> FALSE, err |-> "invalid hash decode", hd |-> NoHandle,
               calls |-> <<>>]
         ELSE LET ringPart == PartInt(RingPartOf(hsh, power))
                  calls == <<Call("List", NoWriter, FALSE, hsh, ringPart, FALSE,
                                  <<>>)>>
              IN  IF listFail
                  THEN [ok |-> FALSE, err |-> "list", hd |-> NoHandle,
                        calls |-> calls]
                  ELSE LET items == Lines(List(st, ringPart, power))
                           fakebytes == Itoa(ringPart) \o <<"\n">> \o items
                       IN  [ok |-> TRUE, err |-> "nil", calls |-> calls,
                            hd |-> [NoHandle EXCEPT
                                !.hash = hsh,
                                !.loaded = TRUE,
                                !.timestamp = UnixNano(now),
                                !.deletion = FALSE,
                                !.metadata =
                                    [k \in Keys |->
                                        IF k = "X-Timestamp"
                                        THEN CanonicalTimestampFromTime(now)
                                        ELSE Itoa(Len(items))],
                                !.path = FakePath,
                                !.fakebytes = fakebytes]]
    ELSE [ok |-> TRUE, err |-> "nil", calls |-> <<>>,
          hd |-> [NoHandle EXCEPT !.hash = ObjHash(v)]]

\* indexDBEngine.New, for a device the engine knows
new(st, v, power, now, listFail) ==
    IF HasFakelistPrefix(v.obj)
    THEN LET hsh == ToLower(ObjHash(v)) IN
         IF Len(hsh) # 32
         THEN [ok |-> FALSE, err |-> "invalid hash length", hd |-> NoHandle,
               calls |-> <<>>]
         ELSE IF ~HexDecodeOk(hsh)
         THEN [ok |-> FALSE, err |-> "invalid hash decode", hd |-> NoHandle,
               calls |-> <<>>]
         ELSE LET ringPart == PartInt(RingPartOf(hsh, power))
                  calls == <<Call("List", NoWriter, FALSE, hsh, ringPart, FALSE,
                                  <<>>)>>
              IN  IF listFail
                  THEN [ok |-> FALSE, err |-> "list", hd |-> NoHandle,
                        calls |-> calls]
                  ELSE LET fakebytes == Itoa(ringPart) \o <<"\n">>
                                          \o Lines(List(st, ringPart, power))
                       IN  [ok |-> TRUE, err |-> "nil", calls |-> calls,
                            hd |-> [NoHandle EXCEPT
                                !.hash = hsh,
                                !.loaded = TRUE,
                                !.timestamp = UnixNano(now),
                                !.deletion = FALSE,
                                !.metadata =
                                    [k \in Keys |->
                                        IF k = "X-Timestamp"
                                        THEN CanonicalTimestampFromTime(now)
                                        ELSE Itoa(Len(fakebytes))],
                                !.path = FakePath,
                                !.fakebytes = fakebytes]]
    ELSE [ok |-> TRUE, err |-> "nil", calls |-> <<>>,
          hd |-> [NoHandle EXCEPT !.hash = ObjHash(v)]]

\* a faulty variant: the handle counts as loaded although its metadata did
\* not deserialize
loadMarkingLoaded(st, hd, mode) ==
    IF hd.loaded THEN [hd |-> hd, err |-> "nil", calls |-> <<>>]
    ELSE LET r == Lookup(st, hd.hash, mode)
             calls == <<Call("Lookup", NoWriter, FALSE, hd.hash, 0, FALSE, <<>>)>>
             hd1 == [hd EXCEPT !.timestamp = r.timestamp,
                               !.deletion = r.deletion,
                               !.path = r.path]
         IN  IF r.err # "nil"
             THEN [hd |-> hd1, err |-> r.err, calls |-> calls]
             ELSE IF ~UnmarshalOk(r.metabytes)
             THEN [hd |-> [hd1 EXCEPT !.metadata = EmptyMap,
                                      !.loaded = TRUE],
                   err |-> "json", calls |-> calls]
             ELSE [hd |-> [hd1 EXCEPT !.metadata = Unmarshal(r.metabytes),
                                      !.loaded = TRUE],
                   err |-> "nil", calls |-> calls]

\* a faulty variant: the record is looked up again on every call
loadAlways(st, hd, mode) ==
    LET r == Lookup(st, hd.hash, mode)
        calls == <<Call("Lookup", NoWriter, FALSE, hd.hash, 0, FALSE, <<>>)>>
        hd1 == [hd EXCEPT !.timestamp = r.timestamp,
                          !.deletion = r.deletion,
                          !.path = r.path]
    IN  IF r.err # "nil"
        THEN [hd |-> hd1, err |-> r.err, calls |-> calls]
        ELSE IF ~UnmarshalOk(r.metabytes)
        THEN [hd |-> [hd1 EXCEPT !.metadata = EmptyMap], err |-> "json",
              calls |-> calls]
        ELSE [hd |-> [hd1 EXCEPT !.metadata = Unmarshal(r.metabytes),
                                 !.loaded = TRUE],
              err |-> "nil", calls |-> calls]

\* a faulty variant: the path Lookup returns is not kept
loadWithoutPath(st, hd, mode) ==
    IF hd.loaded THEN [hd |-> hd, err |-> "nil", calls |-> <<>>]
    ELSE LET r == Lookup(st, hd.hash, mode)
             calls == <<Call("Lookup", NoWriter, FALSE, hd.hash, 0, FALSE, <<>>)>>
             hd1 == [hd EXCEPT !.timestamp = r.timestamp,
                               !.deletion = r.deletion]
         IN  IF r.err # "nil"
             THEN [hd |-> hd1, err |-> r.err, calls |-> calls]
             ELSE IF ~UnmarshalOk(r.metabytes)
             THEN [hd |-> [hd1 EXCEPT !.metadata = EmptyMap], err |-> "json",
                   calls |-> calls]
             ELSE [hd |-> [hd1 EXCEPT !.metadata = Unmarshal(r.metabytes),
                                      !.loaded = TRUE],
                   err |-> "nil", calls |-> calls]

\* indexDBObject.load
load(st, hd, mode) ==
    IF hd.loaded THEN [hd |-> hd, err |-> "nil", calls |-> <<>>]
    ELSE LET r == Lookup(st, hd.hash, mode)
             calls == <<Call("Lookup", NoWriter, FALSE, hd.hash, 0, FALSE, <<>>)>>
             hd1 == [hd EXCEPT !.timestamp = r.timestamp,
                               !.deletion = r.deletion,
                               !.path = r.path]
         IN  IF r.err # "nil"
             THEN [hd |-> hd1, err |-> r.err, calls |-> calls]
             ELSE IF ~UnmarshalOk(r.metabytes)
             THEN [hd |-> [hd1 EXCEPT !.metadata = EmptyMap], err |-> "json",
                   calls |-> calls]
             ELSE [hd |-> [hd1 EXCEPT !.metadata = Unmarshal(r.metabytes),
                                      !.loaded = TRUE],
                   err |-> "nil", calls |-> calls]

\* indexDBObject.Metadata
metadata(st, hd, mode) ==
    LET l == load(st, hd, mode)
    IN  [hd |-> l.hd, calls |-> l.calls,
         ret |-> IF l.err # "nil" THEN EmptyMap ELSE l.hd.metadata]

\* indexDBObject.ContentLength
contentLength(st, hd, mode) ==
    LET l == load(st, hd, mode)
        p == ParseInt(Get(l.hd.metadata, "Content-Length"))
    IN  [hd |-> l.hd, calls |-> l.calls,
         ret |-> IF l.err # "nil" THEN -1
                 ELSE IF ~p.ok THEN -1 ELSE p.val]

\* a faulty variant: the deletion flag is not looked at
existsIgnoringDeletion(st, hd, mode) ==
    LET l == load(st, hd, mode)
    IN  [hd |-> l.hd, calls |-> l.calls, ret |-> l.err = "nil"]

\* a faulty variant: the load error is not looked at
existsIgnoringLoadError(st, hd, mode) ==
    LET l == load(st, hd, mode)
    IN  [hd |-> l.hd, calls |-> l.calls, ret |-> ~l.hd.deletion]

\* indexDBObject.Exists
exists(st, hd, mode) ==
    LET l == load(st, hd, mode)
    IN  [hd |-> l.hd, calls |-> l.calls,
         ret |-> IF l.err # "nil" THEN FALSE ELSE ~l.hd.deletion]

\* indexDBObject.Copy: ret is <<written, the bytes each destination received>>
copy(st, hd, mode) ==
    LET l == load(st, hd, mode) IN
    IF l.err # "nil"
    THEN [hd |-> l.hd, calls |-> l.calls, err |-> l.err, ret |-> <<0, <<>>>>]
    ELSE IF l.hd.path = FakePath
    THEN [hd |-> l.hd, calls |-> l.calls, err |-> "nil",
          ret |-> <<Len(l.hd.fakebytes), l.hd.fakebytes>>]
    ELSE IF ~FileExists(st, l.hd.path)
    THEN [hd |-> l.hd, calls |-> l.calls, err |-> "open", ret |-> <<0, <<>>>>]
    ELSE [hd |-> l.hd, calls |-> l.calls, err |-> "nil",
          ret |-> <<Len(FileData(st, l.hd.path)), FileData(st, l.hd.path)>>]

\* indexDBObject.CopyRange
copyRange(st, hd, mode, start, end) ==
    LET l == load(st, hd, mode) IN
    IF l.err # "nil"
    THEN [hd |-> l.hd, calls |-> l.calls, err |-> l.err, ret |-> <<0, <<>>>>]
    ELSE IF ~FileExists(st, l.hd.path)
    THEN [hd |-> l.hd, calls |-> l.calls, err |-> "open", ret |-> <<0, <<>>>>]
    ELSE LET data == FileData(st, l.hd.path)
             rest == SubSeq(data, start + 1, Len(data))
         IN  IF Len(rest) >= end - start
             THEN [hd |-> l.hd, calls |-> l.calls, err |-> "nil",
                   ret |-> <<end - start, SubSeq(rest, 1, end - start)>>]
             ELSE [hd |-> l.hd, calls |-> l.calls, err |-> "EOF",
                   ret |-> <<Len(rest), rest>>]

\* a faulty variant: when TempFile fails the handle keeps the reference it had
setDataTempFileKeepingOld(ws, h, hd, tempOk, before) ==
    IF tempOk /\ FreeIds(ws) # {}
    THEN [hd |-> [hd EXCEPT !.atomicFileWriter = NextWriter(ws)],
          writers |-> TempFile(ws, h), err |-> "nil",
          calls |-> before \o <<Call("TempFile", NextWriter(ws), FALSE, hd.hash,
                                     0, FALSE, <<>>)>>]
    ELSE [hd |-> hd,
          writers |-> ws, err |-> "tempfile",
          calls |-> before \o <<Call("TempFile", NoWriter, FALSE, hd.hash, 0,
                                     FALSE, <<>>)>>]

\* the TempFile call of SetData and what it leaves
setDataTempFile(ws, h, hd, tempOk, before) ==
    IF tempOk /\ FreeIds(ws) # {}
    THEN [hd |-> [hd EXCEPT !.atomicFileWriter = NextWriter(ws)],
          writers |-> TempFile(ws, h), err |-> "nil",
          calls |-> before \o <<Call("TempFile", NextWriter(ws), FALSE, hd.hash,
                                     0, FALSE, <<>>)>>]
    ELSE [hd |-> [hd EXCEPT !.atomicFileWriter = NoWriter],
          writers |-> ws, err |-> "tempfile",
          calls |-> before \o <<Call("TempFile", NoWriter, FALSE, hd.hash, 0,
                                     FALSE, <<>>)>>]

\* a faulty variant: the pending writer is dropped without being abandoned
setDataNoAbandon(ws, h, hd, tempOk) == setDataTempFile(ws, h, hd, tempOk, <<>>)

\* a faulty variant: the new writer is asked for first, the old one abandoned
\* after
setDataAbandonAfter(ws, h, hd, tempOk) ==
    LET r == setDataTempFile(ws, h, hd, tempOk, <<>>)
    IN  IF hd.atomicFileWriter # NoWriter
        THEN [r EXCEPT !.writers = Abandon(r.writers, hd.atomicFileWriter),
                       !.calls = r.calls \o
                           <<Call("Abandon", hd.atomicFileWriter,
                                  OwnedOpen(ws, hd.atomicFileWriter, h),
                                  hd.hash, 0, FALSE, <<>>)>>]
        ELSE r

\* indexDBObject.SetData; tempOk: whether TempFile succeeds
setData(ws, h, hd, tempOk) ==
    IF hd.atomicFileWriter # NoWriter
    THEN setDataTempFile(Abandon(ws, hd.atomicFileWriter), h, hd, tempOk,
            <<Call("Abandon", hd.atomicFileWriter,
                   OwnedOpen(ws, hd.atomicFileWriter, h), hd.hash, 0, FALSE,
                   <<>>)>>)
    ELSE setDataTempFile(ws, h, hd, tempOk, <<>>)

\* a faulty variant: the writer is kept when the index database fails
commitForwardKeepingFailedWriter(st, ws, h, hd, meta, deletion, timestamp, fail) ==
    LET metabytes == Marshal(meta)
        r == IndexCommit(st, ws, hd.atomicFileWriter, hd.hash, timestamp,
                         deletion, metabytes, fail)
    IN  [hd |-> IF r.err = "nil" THEN [hd EXCEPT !.atomicFileWriter = NoWriter]
                ELSE hd,
         store |-> r.store, writers |-> r.writers, err |-> r.err,
         calls |-> <<[Call("Commit", hd.atomicFileWriter,
                           OwnedOpen(ws, hd.atomicFileWriter, h), hd.hash,
                           timestamp, deletion, metabytes)
                      EXCEPT !.metahash = MetadataHash(meta)]>>]

\* the part of commit from json.Marshal on
commitForward(st, ws, h, hd, meta, deletion, timestamp, fail) ==
    LET metabytes == Marshal(meta)
        r == IndexCommit(st, ws, hd.atomicFileWriter, hd.hash, timestamp,
                         deletion, metabytes, fail)
    IN  [hd |-> [hd EXCEPT !.atomicFileWriter = NoWriter],
         store |-> r.store, writers |-> r.writers, err |-> r.err,
         calls |-> <<[Call("Commit", hd.atomicFileWriter,
                           OwnedOpen(ws, hd.atomicFileWriter, h), hd.hash,
                           timestamp, deletion, metabytes)
                      EXCEPT !.metahash = MetadataHash(meta)]>>]

\* a faulty variant: a failed validation clears the pending writer
commitClearingWriter(st, ws, h, hd, meta, deletion, fail) ==
    IF hd.atomicFileWriter # NoWriter \/ deletion
    THEN IF ~Has(meta, "X-Timestamp")
         THEN [hd |-> [hd EXCEPT !.atomicFileWriter = NoWriter], store |-> st,
               writers |-> ws, calls |-> <<>>,
               err |-> "no timestamp in metadata"]
         ELSE IF ~ParseDateOk(meta["X-Timestamp"])
         THEN [hd |-> [hd EXCEPT !.atomicFileWriter = NoWriter], store |-> st,
               writers |-> ws, calls |-> <<>>, err |-> "parse"]
         ELSE commitForward(st, ws, h, hd, meta, deletion,
                            UnixNano(ParseDate(meta["X-Timestamp"])), fail)
    ELSE commitForward(st, ws, h, hd, meta, deletion, 0, fail)

\* a faulty variant: only a pending writer makes the timestamp mandatory
commitGatedOnWriterOnly(st, ws, h, hd, meta, deletion, fail) ==
    IF hd.atomicFileWriter # NoWriter
    THEN IF ~Has(meta, "X-Timestamp")
         THEN [hd |-> hd, store |-> st, writers |-> ws, calls |-> <<>>,
               err |-> "no timestamp in metadata"]
         ELSE IF ~ParseDateOk(meta["X-Timestamp"])
         THEN [hd |-> hd, store |-> st, writers |-> ws, calls |-> <<>>,
               err |-> "parse"]
         ELSE commitForward(st, ws, h, hd, meta, deletion,
                            UnixNano(ParseDate(meta["X-Timestamp"])), fail)
    ELSE commitForward(st, ws, h, hd, meta, deletion, 0, fail)

\* a faulty variant: a commit not newer than the record the handle has
\* loaded is dropped here instead of being left to the index database
commitComparingLoaded(st, ws, h, hd, meta, deletion, fail) ==
    IF hd.atomicFileWriter # NoWriter \/ deletion
    THEN IF ~Has(meta, "X-Timestamp")
         THEN [hd |-> hd, store |-> st, writers |-> ws, calls |-> <<>>,
               err |-> "no timestamp in metadata"]
         ELSE IF ~ParseDateOk(meta["X-Timestamp"])
         THEN [hd |-> hd, store |-> st, writers |-> ws, calls |-> <<>>,
               err |-> "parse"]
         ELSE IF hd.loaded
                 /\ hd.timestamp >= UnixNano(ParseDate(meta["X-Timestamp"]))
         THEN [hd |-> hd, store |-> st, writers |-> ws, calls |-> <<>>,
               err |-> "nil"]
         ELSE commitForward(st, ws, h, hd, meta, deletion,
                            UnixNano(ParseDate(meta["X-Timestamp"])), fail)
    ELSE commitForward(st, ws, h, hd, meta, deletion, 0, fail)

\* indexDBObject.commit; fail: whether the index database's Commit fails
commit(st, ws, h, hd, meta, deletion, fail) ==
    IF hd.atomicFileWriter # NoWriter \/ deletion
    THEN IF ~Has(meta, "X-Timestamp")
         THEN [hd |-> hd, store |-> st, writers |-> ws, calls |-> <<>>,
               err |-> "no timestamp in metadata"]
         ELSE IF ~ParseDateOk(meta["X-Timestamp"])
         THEN [hd |-> hd, store |-> st, writers |-> ws, calls |-> <<>>,
               err |-> "parse"]
         ELSE commitForward(st, ws, h, hd, meta, deletion,
                            UnixNano(ParseDate(meta["X-Timestamp"])), fail)
    ELSE commitForward(st, ws, h, hd, meta, deletion, 0, fail)

\* a faulty variant: the reference to the abandoned writer is kept
closeKeepingReference(ws, h, hd) ==
    IF hd.atomicFileWriter # NoWriter
    THEN [hd |-> hd,
          writers |-> Abandon(ws, hd.atomicFileWriter),
          calls |-> <<Call("Abandon", hd.atomicFileWriter,
                           OwnedOpen(ws, hd.atomicFileWriter, h), hd.hash, 0,
                           FALSE, <<>>)>>]
    ELSE [hd |-> hd, writers |-> ws, calls |-> <<>>]

\* indexDBObject.Close
close(ws, h, hd) ==
    IF hd.atomicFileWriter # NoWriter
    THEN [hd |-> [hd EXCEPT !.atomicFileWriter = NoWriter],
          writers |-> Abandon(ws, hd.atomicFileWriter),
          calls |-> <<Call("Abandon", hd.atomicFileWriter,
                           OwnedOpen(ws, hd.atomicFileWriter, h), hd.hash, 0,
                           FALSE, <<>>)>>]
    ELSE [hd |-> hd, writers |-> ws, calls |-> <<>>]

----------------------------------------------------------------------------
(* The object model: requests made of the engine and of its handles *)

\* what the last step called, with what, and what came back; arg is the map
\* passed (the metadata of a commit, the vars of New), w0 the handle's
\* pending writer when the call was made
Last(op, h, arg, err, ret, calls, w0) ==
    [op |-> op, h |-> h, arg |-> arg, err |-> err, ret |-> ret,
     calls |-> calls, w0 |-> w0]

\* no call of the handle is between its load and its os.Open
NoRead == [op |-> "none", start |-> 0, end |-> 0, calls |-> <<>>]

\* A handle serves one request: its methods are called one after the other,
\* so none starts while a Copy or CopyRange of the handle is under way.
Idle(h) == reading[h] = NoRead

NoCommit == [valid |-> FALSE, meta |-> EmptyMap, data |-> <<>>,
             deletion |-> FALSE, writer |-> FALSE]

\* no handle made yet, an empty index database
ObjInit ==
    /\ handles = [h \in HandleIds |-> NoHandle]
    /\ live = {}
    /\ store = [k \in StoreKeys |-> NoRecord]
    /\ writers = [w \in WriterIds |-> FreeWriter]
    /\ replaced = {}
    /\ committed = [k \in StoreKeys |-> NoCommit]
    /\ last = Last("init", 0, EmptyMap, "nil", 0, <<>>, NoWriter)
    /\ reading = [h \in HandleIds |-> NoRead]

\* no partition derived yet
NoPartition == <<-1, -1>>

PartIdle ==
    /\ partHash = IdA
    /\ partPower = 0
    /\ partResult = NoPartition

\* the engine has been constructed for a ring of EngineRingCount partitions
Init ==
    /\ ObjInit
    /\ ringCount = EngineRingCount
    /\ ringPower = RingPartPowerOf(EngineRingCount)
    /\ PartIdle

\* a faulty variant: an unknown device is answered with an error value
NewReturningError(h, device, obj, hsh, now, listFail) ==
    /\ h \notin live
    /\ LET v == [device |-> device, obj |-> obj, hash |-> hsh] IN
       IF device \notin KnownDevices
       THEN /\ last' = Last("New", 0, v, "unknown device", 0, <<>>, NoWriter)
            /\ UNCHANGED <<handles, live>>
       ELSE LET r == new(store, v, ringPower, now, listFail)
            IN  IF r.ok
                THEN /\ handles' = [handles EXCEPT ![h] = r.hd]
                     /\ live' = live \cup {h}
                     /\ last' = Last("New", h, v, "nil", h, r.calls, NoWriter)
                ELSE /\ last' = Last("New", 0, v, r.err, 0, r.calls, NoWriter)
                     /\ UNCHANGED <<handles, live>>
    /\ UNCHANGED <<store, writers, replaced, committed, reading,
                 ringVars, partVars>>

\* indexDBEngine.New, the handle going to the free id h; err "panic" stands
\* for the panic, which returns nothing
New(h, device, obj, hsh, now, listFail) ==
    /\ h \notin live
    /\ LET v == [device |-> device, obj |-> obj, hash |-> hsh] IN
       IF device \notin KnownDevices
       THEN /\ last' = Last("New", 0, v, "panic", 0, <<>>, NoWriter)
            /\ UNCHANGED <<handles, live>>
       ELSE LET r == new(store, v, ringPower, now, listFail)
            IN  IF r.ok
                THEN /\ handles' = [handles EXCEPT ![h] = r.hd]
                     /\ live' = live \cup {h}
                     /\ last' = Last("New", h, v, "nil", h, r.calls, NoWriter)
                ELSE /\ last' = Last("New", 0, v, r.err, 0, r.calls, NoWriter)
                     /\ UNCHANGED <<handles, live>>
    /\ UNCHANGED <<store, writers, replaced, committed, reading,
                 ringVars, partVars>>

\* The request is over and its handle is let go of.  Nothing runs then (there
\* is no finalizer); callers close a handle before they let go of it, so it
\* holds no writer.
Drop(h) ==
    /\ h \in live
    /\ Idle(h)
    /\ handles[h].atomicFileWriter = NoWriter
    /\ live' = live \ {h}
    /\ handles' = [handles EXCEPT ![h] = NoHandle]
    /\ replaced' = replaced \ {h}
    /\ last' = Last("Drop", h, EmptyMap, "nil", 0, <<>>, NoWriter)
    /\ UNCHANGED <<store, writers, committed, reading,
                 ringVars, partVars>>

Metadata(h, mode) ==
    /\ h \in live
    /\ Idle(h)
    /\ \E r \in {metadata(store, handles[h], mode)} :
           /\ handles' = [handles EXCEPT ![h] = r.hd]
           /\ last' = Last("Metadata", h, EmptyMap, "nil", r.ret, r.calls,
                           handles[h].atomicFileWriter)
    /\ UNCHANGED <<live, store, writers, replaced, committed, reading,
                 ringVars, partVars>>

ContentLength(h, mode) ==
    /\ h \in live
    /\ Idle(h)
    /\ \E r \in {contentLength(store, handles[h], mode)} :
           /\ handles' = [handles EXCEPT ![h] = r.hd]
           /\ last' = Last("ContentLength", h, EmptyMap, "nil", r.ret, r.calls,
                           handles[h].atomicFileWriter)
    /\ UNCHANGED <<live, store, writers, replaced, committed, reading,
                 ringVars, partVars>>

Exists(h, mode) ==
    /\ h \in live
    /\ Idle(h)
    /\ \E r \in {exists(store, handles[h], mode)} :
           /\ handles' = [handles EXCEPT ![h] = r.hd]
           /\ last' = Last("Exists", h, EmptyMap, "nil", r.ret, r.calls,
                           handles[h].atomicFileWriter)
    /\ UNCHANGED <<live, store, writers, replaced, committed, reading,
                 ringVars, partVars>>

\* indexDBObject.Copy up to its os.Open.  load() and os.Open are two blocking
\* calls with no lock held between them: where load() made its Lookup and the
\* call goes on, other handles may commit before the file is opened.  A Copy
\* that makes no Lookup, or returns on its error, is over in this step.
Copy(h, mode) ==
    /\ h \in live
    /\ Idle(h)
    /\ \E l \in {load(store, handles[h], mode)} :
           IF l.calls # <<>> /\ l.err = "nil"
           THEN /\ handles' = [handles EXCEPT ![h] = l.hd]
                /\ reading' = [reading EXCEPT ![h] =
                                 [op |-> "Copy", start |-> 0, end |-> 0,
                                  calls |-> l.calls]]
                /\ last' = Last("load", h, EmptyMap, "nil", 0, l.calls,
                                handles[h].atomicFileWriter)
           ELSE \E r \in {copy(store, handles[h], mode)} :
                   /\ handles' = [handles EXCEPT ![h] = r.hd]
                   /\ last' = Last("Copy", h, EmptyMap, r.err, r.ret, r.calls,
                                   handles[h].atomicFileWriter)
                   /\ UNCHANGED reading
    /\ UNCHANGED <<live, store, writers, replaced, committed, ringVars, partVars>>

\* indexDBObject.Copy from its os.Open on, on the index database as it is now
CopyOpen(h) ==
    /\ h \in live
    /\ reading[h].op = "Copy"
    /\ \E r \in {copy(store, handles[h], "ok")} :
           /\ handles' = [handles EXCEPT ![h] = r.hd]
           /\ last' = Last("Copy", h, EmptyMap, r.err, r.ret,
                           reading[h].calls \o r.calls,
                           handles[h].atomicFileWriter)
    /\ reading' = [reading EXCEPT ![h] = NoRead]
    /\ UNCHANGED <<live, store, writers, replaced, committed, ringVars, partVars>>

\* indexDBObject.CopyRange up to its os.Open, as Copy
CopyRange(h, mode, start, end) ==
    /\ h \in live
    /\ Idle(h)
    /\ start <= end
    /\ \E l \in {load(store, handles[h], mode)} :
           IF l.calls # <<>> /\ l.err = "nil"
           THEN /\ handles' = [handles EXCEPT ![h] = l.hd]
                /\ reading' = [reading EXCEPT ![h] =
                                 [op |-> "CopyRange", start |-> start,
                                  end |-> end, calls |-> l.calls]]
                /\ last' = Last("load", h, EmptyMap, "nil", 0, l.calls,
                                handles[h].atomicFileWriter)
           ELSE \E r \in {copyRange(store, handles[h], mode, start, end)} :
                   /\ handles' = [handles EXCEPT ![h] = r.hd]
                   /\ last' = Last("CopyRange", h, EmptyMap, r.err, r.ret,
                                   r.calls, handles[h].atomicFileWriter)
                   /\ UNCHANGED reading
    /\ UNCHANGED <<live, store, writers, replaced, committed, ringVars, partVars>>

\* indexDBObject.CopyRange from its os.Open on
CopyRangeOpen(h) ==
    /\ h \in live
    /\ reading[h].op = "CopyRange"
    /\ \E r \in {copyRange(store, handles[h], "ok", reading[h].start,
                            reading[h].end)} :
           /\ handles' = [handles EXCEPT ![h] = r.hd]
           /\ last' = Last("CopyRange", h, EmptyMap, r.err, r.ret,
                           reading[h].calls \o r.calls,
                           handles[h].atomicFileWriter)
    /\ reading' = [reading EXCEPT ![h] = NoRead]
    /\ UNCHANGED <<live, store, writers, replaced, committed, ringVars, partVars>>

SetData(h, tempOk) ==
    /\ h \in live
    /\ Idle(h)
    /\ \E r \in {setData(writers, h, handles[h], tempOk)} :
           /\ handles' = [handles EXCEPT ![h] = r.hd]
           /\ writers' = r.writers
           /\ last' = Last("SetData", h, EmptyMap, r.err, r.hd.atomicFileWriter,
                           r.calls, handles[h].atomicFileWriter)
    /\ replaced' = IF handles[h].atomicFileWriter # NoWriter
                   THEN replaced \cup {h} ELSE replaced
    /\ UNCHANGED <<live, store, committed, reading,
                 ringVars, partVars>>

\* the caller writes one byte to the sink SetData returned
Write(h, b) ==
    /\ h \in live
    /\ Idle(h)
    /\ IsOpen(writers, handles[h].atomicFileWriter)
    /\ Len(writers[handles[h].atomicFileWriter].data) < MaxData
    /\ writers' = [writers EXCEPT ![handles[h].atomicFileWriter].data =
                                        Append(@, b)]
    /\ last' = Last("Write", h, EmptyMap, "nil", 1, <<>>,
                    handles[h].atomicFileWriter)
    /\ UNCHANGED <<handles, live, store, replaced, committed, reading,
                 ringVars, partVars>>

Committed(op, h, meta, deletion, fail) ==
    /\ h \in live
    /\ Idle(h)
    /\ \E r \in {commit(store, writers, h, handles[h], meta, deletion, fail)} :
           /\ handles' = [handles EXCEPT ![h] = r.hd]
           /\ store' = r.store
           /\ writers' = r.writers
           /\ last' = Last(op, h, meta, r.err, 0, r.calls,
                           handles[h].atomicFileWriter)
           /\ committed' =
                IF /\ r.calls # <<>>
                   /\ r.err = "nil"
                   /\ \/ ~store[r.calls[1].hash].present
                      \/ store[r.calls[1].hash].timestamp < r.calls[1].timestamp
                THEN [committed EXCEPT ![r.calls[1].hash] =
                        [valid |-> TRUE, meta |-> meta,
                         data |-> IF IsOpen(writers, r.calls[1].w)
                                  THEN writers[r.calls[1].w].data ELSE <<>>,
                         deletion |-> deletion,
                         writer |-> r.calls[1].w # NoWriter]]
                ELSE committed
    /\ UNCHANGED <<live, replaced, reading, ringVars, partVars>>

\* indexDBObject.Commit
Commit(h, meta, fail) == Committed("Commit", h, meta, FALSE, fail)

\* indexDBObject.CommitMetadata
CommitMetadata(h, meta, fail) == Committed("CommitMetadata", h, meta, FALSE, fail)

\* indexDBObject.Delete
Delete(h, meta, fail) == Committed("Delete", h, meta, TRUE, fail)

Close(h) ==
    /\ h \in live
    /\ Idle(h)
    /\ \E r \in {close(writers, h, handles[h])} :
           /\ handles' = [handles EXCEPT ![h] = r.hd]
           /\ writers' = r.writers
           /\ last' = Last("Close", h, EmptyMap, "nil", 0, r.calls,
                           handles[h].atomicFileWriter)
    /\ UNCHANGED <<live, store, replaced, committed, reading,
                 ringVars, partVars>>

LookupModes == {"ok", "fail", "corrupt"}

\* the ways a Lookup may go that can make a difference to handle h: none is
\* made once the handle is loaded, and with no record it fails in any case
ModesFor(h) ==
    IF handles[h].loaded \/ ~store[handles[h].hash].present
    THEN {"ok"} ELSE LookupModes

\* whether the index database's Commit fails, where the call reaches it
FailsFor(h, meta, deletion) ==
    IF commit(store, writers, h, handles[h], meta, deletion, FALSE).calls = <<>>
    THEN {FALSE} ELSE BOOLEAN

Next ==
    \/ \E h \in HandleIds, x \in ObjIds, t \in Clock :
          \/ \E d \in DeviceInputs \ KnownDevices : New(h, d, "obj", x, t, FALSE)
          \/ \E d \in KnownDevices :
                \/ New(h, d, "obj", x, t, FALSE)
                \/ \E lf \in BOOLEAN : New(h, d, "fakelist1", x, t, lf)
    \/ \E h \in live : Drop(h)
    \/ \E h \in live : \E mode \in ModesFor(h) : Metadata(h, mode)
    \/ \E h \in live : \E mode \in ModesFor(h) : ContentLength(h, mode)
    \/ \E h \in live : \E mode \in ModesFor(h) : Exists(h, mode)
    \/ \E h \in live : \E mode \in ModesFor(h) : Copy(h, mode)
    \/ \E h \in live : \E mode \in ModesFor(h), r \in RangeInputs :
          CopyRange(h, mode, r[1], r[2])
    \/ \E h \in live : CopyOpen(h)
    \/ \E h \in live : CopyRangeOpen(h)
    \/ \E h \in live, ok \in BOOLEAN : SetData(h, ok)
    \/ \E h \in live, b \in DataBytes : Write(h, b)
    \/ \E h \in live, m \in MetaInputs : \E f \in FailsFor(h, m, FALSE) :
          Commit(h, m, f)
    \/ \E h \in live, m \in MetaInputs : \E f \in FailsFor(h, m, FALSE) :
          CommitMetadata(h, m, f)
    \/ \E h \in live, m \in MetaInputs : \E f \in FailsFor(h, m, TRUE) :
          Delete(h, m, f)
    \/ \E h \in live : Close(h)

Spec == Init /\ [][Next]_vars

----------------------------------------------------------------------------
(* The engine constructor on its own: every ring partition count tried *)

RingCounts == (1..MaxRingCount) \cup {1024}

\* the constructor has not run
NoPower == -1

InitRing ==
    /\ ObjInit
    /\ ringCount \in RingCounts
    /\ ringPower = NoPower
    /\ PartIdle

\* indexDBEngineConstructor: the ringPartPower handed to each NewIndexDB
indexDBEngineConstructor ==
    /\ ringPower = NoPower
    /\ ringPower' = RingPartPowerOf(ringCount)
    /\ UNCHANGED <<objVars, ringCount, partVars>>

NextRing == indexDBEngineConstructor

SpecRing == InitRing /\ [][NextRing]_vars

----------------------------------------------------------------------------
(* The partition derivation on its own: identities and powers tried *)

\* a second choice for each of the first eight characters, both cases of hex
AltPrefix == <<"0", "f", "F", "7", "e", "3", "0", "A">>

RECURSIVE Prefixes(_)
Prefixes(n) ==
    IF n = 0 THEN {<<>>}
    ELSE {Append(p, c) : p \in Prefixes(n - 1), c \in {IdA[n], AltPrefix[n]}}

PrefixInputs == Prefixes(8)

TailInputs == {IdTail, [i \in 1..24 |-> "0"]}

PartIds == {p \o t : p \in PrefixInputs, t \in TailInputs}

PowerInputs == 0..32

InitPart ==
    /\ ObjInit
    /\ ringCount = EngineRingCount
    /\ ringPower = RingPartPowerOf(EngineRingCount)
    /\ partHash \in PartIds
    /\ partPower \in PowerInputs
    /\ partResult = NoPartition

\* indexDBEngine.New, fakelist path, up to the partition: the hash is
\* lower-cased, checked and decoded, and the partition derived
DerivePartition ==
    /\ partResult = NoPartition
    /\ Len(ToLower(partHash)) = 32
    /\ HexDecodeOk(ToLower(partHash))
    /\ partResult' = RingPartOf(ToLower(partHash), partPower)
    /\ UNCHANGED <<objVars, ringVars, partHash, partPower>>

NextPart == DerivePartition

SpecPart == InitPart /\ [][NextPart]_vars

----------------------------------------------------------------------------
(* Two requests writing the same identity, their steps interleaved in every  *)
(* way, and a third reading it                                               *)

RaceWriters == {1, 2}
RaceReader == 3
RaceHandles == RaceWriters \cup {RaceReader}

\* what each writing request commits or deletes with: its own timestamp
RaceMeta(h) == IF h = 1 THEN MetaOf(<<"1">>, <<"1">>) ELSE MetaOf(<<"2">>, <<>>)

\* the byte each writing request writes
RaceByte(h) == IF h = 1 THEN "a" ELSE "b"

InitRace ==
    /\ handles = [h \in RaceHandles |-> NoHandle]
    /\ live = {}
    /\ store = [k \in StoreKeys |-> NoRecord]
    /\ writers = [w \in WriterIds |-> FreeWriter]
    /\ replaced = {}
    /\ committed = [k \in StoreKeys |-> NoCommit]
    /\ last = Last("init", 0, EmptyMap, "nil", 0, <<>>, NoWriter)
    /\ reading = [h \in RaceHandles |-> NoRead]
    /\ ringCount = EngineRingCount
    /\ ringPower = RingPartPowerOf(EngineRingCount)
    /\ PartIdle

\* a writing request asks for a writer once it holds none, and is not closed
\* here: what it leaves pending is of no matter to the reader
NextRace ==
    \/ \E h \in RaceHandles : New(h, "sda", "obj", IdA, 2, FALSE)
    \/ \E h \in live \cap RaceWriters : Exists(h, "ok")
    \/ \E h \in live \cap RaceWriters :
          handles[h].atomicFileWriter = NoWriter /\ SetData(h, TRUE)
    \/ \E h \in live \cap RaceWriters : Write(h, RaceByte(h))
    \/ \E h \in live \cap RaceWriters : Commit(h, RaceMeta(h), FALSE)
    \/ \E h \in live \cap RaceWriters : Delete(h, RaceMeta(h), FALSE)
    \/ \E h \in live \cap {RaceReader} : Copy(h, "ok")
    \/ \E h \in live \cap {RaceReader} : CopyOpen(h)
    \/ \E h \in live \cap {RaceReader} : \E r \in RangeInputs :
          CopyRange(h, "ok", r[1], r[2])
    \/ \E h \in live \cap {RaceReader} : CopyRangeOpen(h)
    \/ \E h \in live \cap {RaceReader} : Drop(h)

SpecRace == InitRace /\ [][NextRace]_vars

----------------------------------------------------------------------------
(* The claims *)

TS == "X-Timestamp"
CL == "Content-Length"

CommitOps == {"Commit", "CommitMetadata", "Delete"}

\* the last step was a commit, made with a writer pending, whose metadata
\* has no X-Timestamp
UntimedCommitWithWriter ==
    /\ last.op \in CommitOps
    /\ last.w0 # NoWriter
    /\ ~Has(last.arg, TS)

\* C1 as stated: Commit, CommitMetadata or Delete on a handle with a pending
\* writer and metadata without X-Timestamp returns a validation error and
\* leaves the handle with no pending writer.
C1_WriterCleared ==
    UntimedCommitWithWriter =>
        /\ last.err = "no timestamp in metadata"
        /\ handles[last.h].atomicFileWriter = NoWriter

\* C1 amended: such a call returns the validation error and leaves the
\* pending writer in place: still the handle's writer, still open, neither
\* abandoned nor handed to the index database.
C1_WriterKept ==
    UntimedCommitWithWriter =>
        /\ last.err = "no timestamp in metadata"
        /\ last.calls = <<>>
        /\ handles[last.h].atomicFileWriter = last.w0
        /\ OwnedOpen(writers, last.w0, last.h)

C1_Witness ==
    /\ UntimedCommitWithWriter
    /\ last.op = "Delete"
    /\ last.err = "no timestamp in metadata"

\* the last step made the Lookup that loaded its handle: an accessor, or
\* the load of a Copy or CopyRange that has yet to open its file
FreshLoad ==
    /\ last.op \in {"Metadata", "ContentLength", "Exists", "load"}
    /\ last.calls # <<>>
    /\ last.calls[1].fn = "Lookup"
    /\ handles[last.h].loaded

\* the commit the index database applied last for the hash of the handle the
\* last step was made on
LastApplied == committed[handles[last.h].hash]

\* the last step ended a Copy that loaded its handle, and the record it
\* loaded is still the one stored: no newer commit came between the Lookup
\* and the opening of the file
CopiesLoaded ==
    /\ last.op = "Copy"
    /\ last.calls # <<>>
    /\ last.calls[1].fn = "Lookup"
    /\ handles[last.h].loaded
    /\ store[handles[last.h].hash].present
    /\ store[handles[last.h].hash].timestamp = handles[last.h].timestamp

\* the commit applied last is a data commit whose Content-Length is the
\* size of its payload
DataCommitApplied ==
    /\ LastApplied.valid
    /\ LastApplied.writer
    /\ ~LastApplied.deletion
    /\ Get(LastApplied.meta, CL) = Itoa(Len(LastApplied.data))

\* the record read is that of such a commit
ReadsDataCommit == FreshLoad /\ DataCommitApplied

\* C2: after SetData, writing the payload and a Commit whose metadata has a
\* valid X-Timestamp and a Content-Length equal to the payload size, a handle
\* that loads the record gets Copy = the written bytes, ContentLength = the
\* written size and Exists = true.
C2_RoundTrip ==
    /\ (CopiesLoaded /\ DataCommitApplied) =>
          /\ last.err = "nil"
          /\ last.ret = <<Len(LastApplied.data), LastApplied.data>>
    /\ ReadsDataCommit =>
          /\ last.op = "ContentLength" => last.ret = Len(LastApplied.data)
          /\ last.op = "Exists" => last.ret = TRUE

C2_Witness ==
    /\ CopiesLoaded
    /\ DataCommitApplied
    /\ LastApplied.data # <<>>
    /\ last.ret[2] = LastApplied.data

\* the record read is that of a Delete the index database applied
ReadsTombstone ==
    /\ FreshLoad
    /\ LastApplied.valid
    /\ LastApplied.deletion

\* C3 as stated: after a Delete with a timestamp newer than every prior
\* commit, whatever its metadata, a fresh handle has Exists = false and
\* ContentLength = -1.
C3_DeleteAnyMetadata ==
    ReadsTombstone =>
        /\ last.op = "Exists" => last.ret = FALSE
        /\ last.op = "ContentLength" => last.ret = -1

\* C3 amended: Exists is false; ContentLength is -1 provided the metadata
\* given to Delete has no Content-Length that parses as an integer.
C3_DeleteSemantics ==
    ReadsTombstone =>
        /\ last.op = "Exists" => last.ret = FALSE
        /\ (last.op = "ContentLength"
              /\ ~ParseInt(Get(LastApplied.meta, CL)).ok) => last.ret = -1

C3_Witness ==
    /\ ReadsTombstone
    /\ last.op = "ContentLength"
    /\ LastApplied.meta[TS] = <<"2">>
    /\ last.ret = -1

\* C4: when Close has run on a handle, none of the writers the handle got
\* from TempFile is still open: each was abandoned or handed to Commit; and
\* at any time an open writer is the pending writer of the handle it was
\* made for.
C4_NoLeak ==
    /\ last.op = "Close" =>
          /\ handles[last.h].atomicFileWriter = NoWriter
          /\ \A w \in WriterIds : ~OwnedOpen(writers, w, last.h)
    /\ \A w \in WriterIds :
          IsOpen(writers, w) =>
              /\ writers[w].owner \in live
              /\ handles[writers[w].owner].atomicFileWriter = w

\* SetData, SetData, Close: the first writer abandoned by the second SetData,
\* the second by Close
C4_Witness ==
    /\ last.op = "Close"
    /\ last.h \in replaced
    /\ last.w0 # NoWriter
    /\ Len(last.calls) = 1
    /\ last.calls[1].fn = "Abandon"
    /\ last.calls[1].wopen

\* C5: once a commit has reached the index database the handle has no
\* pending writer, accepted or not; and every writer passed to Commit or
\* abandoned was until then an open writer of the handle, so none is
\* committed twice, nor committed or abandoned after being committed.
C5_WriterConsumedOnce ==
    /\ (last.op \in CommitOps /\ last.calls # <<>>) =>
          handles[last.h].atomicFileWriter = NoWriter
    /\ \A i \in DOMAIN last.calls :
          (last.calls[i].fn \in {"Commit", "Abandon"}
              /\ last.calls[i].w # NoWriter) => last.calls[i].wopen

C5_Witness ==
    /\ last.op = "Commit"
    /\ last.w0 # NoWriter
    /\ last.err = "store"
    /\ handles[last.h].atomicFileWriter = NoWriter

\* the step just made was a commit that needs a timestamp (a writer was
\* pending, or it is a Delete) and whose metadata has none that parses
UntimedGatedCommit ==
    /\ last.op \in CommitOps
    /\ last.w0 # NoWriter \/ last.op = "Delete"
    /\ ~Has(last.arg, TS) \/ ~ParseDateOk(last.arg[TS])

\* C6: a commit with a pending writer, or a Delete, whose metadata lacks
\* X-Timestamp or has one that does not parse returns an error, does not
\* call the index database's Commit, and leaves the stored records unchanged.
C6_ValidationGate ==
    [][UntimedGatedCommit' =>
          /\ last'.err # "nil"
          /\ last'.calls = <<>>
          /\ store' = store]_vars

C6_Witness ==
    /\ UntimedGatedCommit
    /\ last.op = "Delete"
    /\ last.w0 = NoWriter
    /\ last.err = "parse"
    /\ store[handles[last.h].hash].present

\* C7: New for a device with no index database panics: no handle and no
\* error value come back, no call is made to an index database, and nothing
\* the engine or its handles hold changes.
C7_UnknownDevicePanics ==
    [][(last'.op = "New" /\ last'.arg.device \notin KnownDevices) =>
          /\ last'.err = "panic"
          /\ last'.ret = 0
          /\ last'.calls = <<>>
          /\ UNCHANGED <<handles, live, store, writers>>]_vars

C7_Witness ==
    /\ last.op = "New"
    /\ last.arg.device \notin KnownDevices
    /\ last.err = "panic"

\* C8: when load has failed, Metadata returns an empty map, ContentLength -1
\* and Exists false; and Exists returns true exactly when the handle is
\* loaded and its record is not marked deleted.
C8_ReadSentinels ==
    /\ (last.op = "Metadata" /\ ~handles[last.h].loaded) => last.ret = EmptyMap
    /\ (last.op = "ContentLength" /\ ~handles[last.h].loaded) => last.ret = -1
    /\ last.op = "Exists" =>
          (last.ret <=> (handles[last.h].loaded /\ ~handles[last.h].deletion))

\* Exists on a record that is there and not deleted, whose metadata cannot
\* be deserialized
C8_Witness ==
    /\ last.op = "Exists"
    /\ ~handles[last.h].loaded
    /\ last.calls # <<>>
    /\ store[handles[last.h].hash].present
    /\ ~handles[last.h].deletion
    /\ handles[last.h].path # NoPath
    /\ last.ret = FALSE

\* the least k with 2^k >= n
CeilLog2(n) == CHOOSE k \in 0..30 : Pow2(k) >= n /\ \A j \in 0..(k - 1) : Pow2(j) < n

\* C9: the ringPartPower the constructor derives for a ring of n >= 1
\* partitions is ceil(log2(n)): 10 for 1024, 0 for 1.
C9_CeilLog2 ==
    ringPower # NoPower => ringPower = CeilLog2(ringCount)

Bits4(v) == <<v \div 8, (v \div 4) % 2, (v \div 2) % 2, v % 2>>

\* the 32 bits the first eight characters of a lower-case hex string spell
RECURSIVE PrefixBits(_, _)
PrefixBits(hsh, n) ==
    IF n = 0 THEN <<>>
    ELSE PrefixBits(hsh, n - 1)
            \o Bits4((CHOOSE i \in 1..16 : HexLower[i] = hsh[n]) - 1)

RECURSIVE BitsVal(_)
BitsVal(b) ==
    IF b = <<>> THEN 0
    ELSE 2 * BitsVal(SubSeq(b, 1, Len(b) - 1)) + b[Len(b)]

\* the top `power` bits of the first four bytes, as <<high half, low half>>
TopBits(hsh, power) ==
    LET padded == [i \in 1..(32 - power) |-> 0]
                    \o SubSeq(PrefixBits(hsh, 8), 1, power)
    IN  <<BitsVal(SubSeq(padded, 1, 16)), BitsVal(SubSeq(padded, 17, 32))>>

\* p < 2^power, for p held in two halves
BelowPow2(p, power) ==
    /\ p[1] >= 0 /\ p[2] >= 0 /\ p[2] < Pow2(16)
    /\ IF power <= 16 THEN p[1] = 0 /\ p[2] < Pow2(power)
       ELSE p[1] < Pow2(power - 16)

\* C10: for a valid 32-character hex identity and a ringPartPower in 0..32
\* the partition is the big-endian value of the first 4 bytes shifted right
\* by 32 - ringPartPower: its top ringPartPower bits, a value in
\* [0, 2^ringPartPower) that depends on nothing else; 848 for
\* d41d8cd98f00b204e9800998ecf8427e and power 10.
C10_Partition ==
    partResult # NoPartition =>
        /\ partResult = TopBits(ToLower(partHash), partPower)
        /\ BelowPow2(partResult, partPower)
        /\ (partHash = IdA /\ partPower = 10) => partResult = <<0, 848>>

C10_Witness ==
    /\ partHash = IdA
    /\ partPower = 10
    /\ partResult = <<0, 848>>

\* the lines of a text, each ended by a newline
RECURSIVE SplitFrom(_, _, _)
SplitFrom(b, i, cur) ==
    IF i > Len(b) THEN (IF cur = <<>> THEN <<>> ELSE <<cur>>)
    ELSE IF b[i] = "\n" THEN <<cur>> \o SplitFrom(b, i + 1, <<>>)
    ELSE SplitFrom(b, i + 1, Append(cur, b[i]))

SplitLines(b) == SplitFrom(b, 1, <<>>)

\* a decimal numeral of n, with no sign and no leading zero
IsDecimalOf(t, n) ==
    /\ t # <<>>
    /\ AllDigits(t)
    /\ Len(t) > 1 => t[1] # "0"
    /\ DigitsVal(t) = n

\* the last step was a New that returned a listing handle
ListingMade ==
    /\ last.op = "New"
    /\ last.err = "nil"
    /\ last.arg.obj \in {"fakelist", "fakelist1"}

\* C12: the payload of a listing handle is the line of the decimal partition
\* number followed by one line for each record List returns for the
\* partition, and nothing else (no record: just "<partition>\n"); its
\* metadata has the keys X-Timestamp and Content-Length only, Content-Length
\* being the payload's length; Copy streams exactly that payload.
C12_SyntheticListing ==
    /\ ListingMade =>
          LET hd == handles[last.h]
              part == PartInt(TopBits(ToLower(last.arg.hash), ringPower))
              recs == List(store, part, ringPower)
              lines == SplitLines(hd.fakebytes)
          IN  /\ Len(last.calls) = 1
              /\ last.calls[1].fn = "List"
              /\ last.calls[1].timestamp = part
              /\ hd.fakebytes[Len(hd.fakebytes)] = "\n"
              /\ Len(lines) = 1 + Len(recs)
              /\ IsDecimalOf(lines[1], part)
              /\ \A i \in 1..Len(recs) : lines[i + 1] = recs[i]
              /\ DOMAIN hd.metadata = {TS, CL}
              /\ IsDecimalOf(hd.metadata[CL], Len(hd.fakebytes))
    /\ (last.op = "Copy" /\ handles[last.h].path = FakePath) =>
          /\ last.err = "nil"
          /\ last.calls = <<>>
          /\ last.ret = <<Len(handles[last.h].fakebytes),
                          handles[last.h].fakebytes>>

\* Copy of a listing with one record in it
C12_Witness ==
    /\ last.op = "Copy"
    /\ handles[last.h].path = FakePath
    /\ Len(SplitLines(last.ret[2])) = 2
    /\ SplitLines(last.ret[2])[2] = IdA
    /\ handles[last.h].metadata[CL] = <<"3", "5">>

\* C13: no operation on a listing handle, SetData, Commit, CommitMetadata
\* and Delete included, calls the index database's TempFile, Commit or
\* Lookup.
C13_SyntheticReadOnly ==
    (/\ last.op \notin {"init", "New", "Drop"}
     /\ handles[last.h].path = FakePath) =>
        \A i \in DOMAIN last.calls :
            last.calls[i].fn \notin {"TempFile", "Commit", "Lookup"}

\* C14: Close returns no error in every state; a pending writer is abandoned
\* once and the reference cleared; with no writer pending, and so on a second
\* Close in a row, nothing is abandoned and the handle is left as it was;
\* Close makes no call to the index database.
C14_CloseIdempotent ==
    [][last'.op = "Close" =>
          /\ last'.err = "nil"
          /\ handles'[last'.h].atomicFileWriter = NoWriter
          /\ store' = store
          /\ \A i \in DOMAIN last'.calls : last'.calls[i].fn = "Abandon"
          /\ IF handles[last'.h].atomicFileWriter # NoWriter
             THEN /\ Len(last'.calls) = 1
                  /\ last'.calls[1].w = handles[last'.h].atomicFileWriter
                  /\ last'.calls[1].wopen
                  /\ ~IsOpen(writers', last'.calls[1].w)
             ELSE /\ last'.calls = <<>>
                  /\ handles' = handles
                  /\ writers' = writers
          /\ (last.op = "Close" /\ last.h = last'.h) =>
                /\ last'.calls = <<>>
                /\ handles' = handles
                /\ writers' = writers]_vars

\* Close with nothing pending, on a handle that has held writers
C14_Witness ==
    /\ last.op = "Close"
    /\ last.w0 = NoWriter
    /\ last.calls = <<>>
    /\ last.h \in replaced
    /\ \A w \in WriterIds : ~IsOpen(writers, w)

ValidationErrors == {"no timestamp in metadata", "parse"}

\* the timestamp the commit recorded in c was forwarded with
WinnerTs(c) ==
    IF c.writer \/ c.deletion
    THEN DigitsVal(c.meta[TS]) * NanosPerSecond
    ELSE 0

\* a commit that passed validation went to the index database once, with no
\* Lookup and whatever record the handle had loaded
ForwardedOnce ==
    (last.op \in CommitOps /\ last.err \notin ValidationErrors) =>
        /\ Len(last.calls) = 1
        /\ last.calls[1].fn = "Commit"
        /\ last.calls[1].hash = handles[last.h].hash

\* a request that loads the record gets the one applied last, and its Copy
\* that record's payload where no commit is applied before it opens the file
ObservesWinner ==
    /\ (FreshLoad /\ LastApplied.valid) =>
          /\ handles[last.h].metadata = LastApplied.meta
          /\ handles[last.h].deletion = LastApplied.deletion
          /\ handles[last.h].timestamp = WinnerTs(LastApplied)
    /\ (CopiesLoaded /\ LastApplied.valid) =>
          /\ handles[last.h].metadata = LastApplied.meta
          /\ handles[last.h].deletion = LastApplied.deletion
          /\ LastApplied.writer =>
                /\ last.err = "nil"
                /\ last.ret = <<Len(LastApplied.data), LastApplied.data>>

\* the commit applied last changes only for a commit with a greater
\* timestamp, and then to that commit
WinnerIsGreatest ==
    /\ (last'.op \notin CommitOps \/ last'.calls = <<>> \/ last'.err # "nil")
          => committed' = committed
    /\ (last'.op \in CommitOps /\ last'.calls # <<>> /\ last'.err = "nil") =>
          LET k == last'.calls[1].hash
              t == last'.calls[1].timestamp
          IN  IF ~committed[k].valid \/ t > WinnerTs(committed[k])
              THEN /\ committed'[k].valid
                   /\ committed'[k].meta = last'.arg
                   /\ committed'[k].deletion = (last'.op = "Delete")
                   /\ committed'[k].writer = (last'.w0 # NoWriter)
                   /\ WinnerTs(committed'[k]) = t
                   /\ last'.w0 # NoWriter =>
                         committed'[k].data = writers[last'.w0].data
              ELSE committed'[k] = committed[k]

\* C15: commit compares no timestamp and consults no loaded record: each
\* commit that passes validation goes to the index database once; so with
\* two handles of one identity committing or deleting under distinct
\* timestamps, their steps interleaved in any way, a handle that then loads
\* the record gets the metadata, deletion flag and payload of the commit
\* with the greatest timestamp.
C15_LastWriterWins ==
    /\ [](ForwardedOnce /\ ObservesWinner)
    /\ [][WinnerIsGreatest]_vars

\* the first request committed and the second, having loaded that record,
\* committed over it; the reader gets the second's payload
C15_Witness ==
    /\ CopiesLoaded
    /\ last.h = 3
    /\ handles[2].loaded
    /\ handles[2].timestamp = 1 * NanosPerSecond
    /\ handles[last.h].timestamp = 2 * NanosPerSecond
    /\ LastApplied.writer
    /\ last.ret = <<1, <<"b">>>>

\* the last step was a commit that reached the index database
CommitForwarded ==
    /\ last.op \in CommitOps
    /\ last.calls # <<>>
    /\ last.calls[1].fn = "Commit"

\* C16 as stated: every commit forwarded carries the nanoseconds of the
\* metadata's X-Timestamp, a commit with no pending writer included, with
\* the handle's hash and deletion set exactly for Delete.
C16_TimestampAlways ==
    CommitForwarded =>
        /\ Has(last.arg, TS)
        /\ ParseDateOk(last.arg[TS])
        /\ last.calls[1].timestamp = DigitsVal(last.arg[TS]) * NanosPerSecond
        /\ last.calls[1].hash = handles[last.h].hash
        /\ last.calls[1].deletion = (last.op = "Delete")

\* C16 amended: a commit with a pending writer and a Delete carry the
\* nanoseconds of the metadata's X-Timestamp; a Commit or CommitMetadata
\* with no pending writer carries timestamp 0, whatever the metadata.
C16_TimestampIfGated ==
    CommitForwarded =>
        /\ last.calls[1].timestamp =
              IF last.w0 # NoWriter \/ last.op = "Delete"
              THEN DigitsVal(last.arg[TS]) * NanosPerSecond
              ELSE 0
        /\ (last.w0 # NoWriter \/ last.op = "Delete") =>
              Has(last.arg, TS) /\ ParseDateOk(last.arg[TS])
        /\ last.calls[1].hash = handles[last.h].hash
        /\ last.calls[1].deletion = (last.op = "Delete")

\* a metadata-only commit whose metadata has a timestamp, forwarded with 0
C16_Witness ==
    /\ CommitForwarded
    /\ last.op = "CommitMetadata"
    /\ last.w0 = NoWriter
    /\ Has(last.arg, TS)
    /\ ParseDateOk(last.arg[TS])
    /\ last.calls[1].timestamp = 0

ReadOps == {"Metadata", "ContentLength", "Exists", "Copy", "CopyRange"}

\* what a step does to a handle that is loaded: a read that starts on it
\* makes no call and answers from what was loaded, and a Copy or CopyRange
\* that loaded it goes on to its file with no other call
SnapshotKept(h) ==
    /\ h \in live' => handles'[h].loaded
    /\ (~Idle(h) /\ last'.h = h) =>
          /\ last'.op = reading[h].op
          /\ last'.calls = reading[h].calls
          /\ handles'[h] = handles[h]
    /\ (Idle(h) /\ last'.h = h /\ last'.op \in ReadOps) =>
          /\ last'.calls = <<>>
          /\ handles'[h] = handles[h]
          /\ last'.op = "Metadata" => last'.ret = handles[h].metadata
          /\ last'.op = "Exists" => last'.ret = ~handles[h].deletion
          /\ last'.op = "ContentLength" =>
                last'.ret = IF ParseInt(Get(handles[h].metadata, CL)).ok
                            THEN ParseInt(Get(handles[h].metadata, CL)).val
                            ELSE -1

\* C17: loaded never goes back to false in a handle's life; once a Lookup
\* has loaded the handle it makes no other, and Metadata, ContentLength and
\* Exists answer from what was loaded, whatever is committed to the store
\* meanwhile; so a loaded handle may report Exists = true while the store
\* holds a newer tombstone of its hash.
C17_SnapshotReads ==
    [][\A h \in live : handles[h].loaded => SnapshotKept(h)]_vars

\* Exists = true from the snapshot, the record now being a newer tombstone
C17_Witness ==
    /\ last.op = "Exists"
    /\ last.calls = <<>>
    /\ last.ret = TRUE
    /\ handles[last.h].loaded
    /\ handles[last.h].path # FakePath
    /\ store[handles[last.h].hash].deletion
    /\ store[handles[last.h].hash].timestamp > handles[last.h].timestamp

\* C18: SetData on a handle with a pending writer abandons that writer
\* before it asks TempFile for another; so a handle never owns two writers
\* that are neither abandoned nor handed to Commit, and no writer is
\* abandoned that was abandoned or committed before.
C18_SetDataOrder ==
    /\ (last.op = "SetData" /\ last.w0 # NoWriter) =>
          /\ Len(last.calls) = 2
          /\ last.calls[1].fn = "Abandon"
          /\ last.calls[1].w = last.w0
          /\ last.calls[2].fn = "TempFile"
    /\ (last.op = "SetData" /\ last.w0 = NoWriter) =>
          /\ Len(last.calls) = 1
          /\ last.calls[1].fn = "TempFile"
    /\ \A h \in HandleIds :
          Cardinality({w \in WriterIds : OwnedOpen(writers, w, h)}) <= 1
    /\ \A i \in DOMAIN last.calls :
          last.calls[i].fn = "Abandon" => last.calls[i].wopen

\* SetData over a pending writer: one abandoned, one made
C18_Witness ==
    /\ last.op = "SetData"
    /\ last.w0 # NoWriter
    /\ last.err = "nil"
    /\ last.calls[1].wopen
    /\ OwnedOpen(writers, handles[last.h].atomicFileWriter, last.h)
    /\ writers[handles[last.h].atomicFileWriter].data = <<>>

LoadErrors == {"lookup", "json"}

\* Copy or CopyRange whose load failed
CopyLoadFailed ==
    /\ last.op \in {"Copy", "CopyRange"}
    /\ last.err \in LoadErrors

\* what a read does on a handle that is not loaded: one Lookup
LooksUpOnce(h) ==
    (last'.h = h /\ last'.op \in ReadOps \cup {"load"}) =>
        /\ Len(last'.calls) = 1
        /\ last'.calls[1].fn = "Lookup"
        /\ last'.calls[1].hash = handles[h].hash

\* C19: a load that fails, on the Lookup or on the metadata, leaves the
\* handle unloaded, and Copy and CopyRange then return that error with zero
\* bytes and no file read; each read of an unloaded handle makes exactly one
\* Lookup, so the next one asks the index database again.
C19_FailedLoad ==
    /\ [](CopyLoadFailed =>
            /\ ~handles[last.h].loaded
            /\ last.ret = <<0, <<>>>>
            /\ Len(last.calls) = 1
            /\ last.calls[1].fn = "Lookup")
    /\ [][\A h \in live : ~handles[h].loaded => LooksUpOnce(h)]_vars

\* Copy of a record that is there, with a file, whose metadata does not
\* deserialize
C19_Witness ==
    /\ CopyLoadFailed
    /\ last.op = "Copy"
    /\ last.err = "json"
    /\ ~handles[last.h].loaded
    /\ FileExists(store, handles[last.h].path)
    /\ FileData(store, handles[last.h].path) # <<>>
    /\ last.ret = <<0, <<>>>>

\* the last step was a SetData whose TempFile failed
SetDataFailed ==
    /\ last.op = "SetData"
    /\ last.err # "nil"

\* C20: when TempFile fails in SetData the error is returned, the writer
\* that was pending has been abandoned and is not put back, and the handle
\* holds no writer; a Commit that follows on the handle is forwarded to the
\* index database with no writer and timestamp 0.
C20_SetDataFailure ==
    /\ [](SetDataFailed =>
            /\ last.ret = NoWriter
            /\ handles[last.h].atomicFileWriter = NoWriter
            /\ \A w \in WriterIds : ~OwnedOpen(writers, w, last.h)
            /\ last.calls[Len(last.calls)].fn = "TempFile"
            /\ last.w0 # NoWriter =>
                  /\ Len(last.calls) = 2
                  /\ last.calls[1].fn = "Abandon"
                  /\ last.calls[1].w = last.w0
                  /\ ~IsOpen(writers, last.w0))
    /\ [][(SetDataFailed /\ last'.op = "Commit" /\ last'.h = last.h) =>
            /\ Len(last'.calls) = 1
            /\ last'.calls[1].fn = "Commit"
            /\ last'.calls[1].w = NoWriter
            /\ last'.calls[1].timestamp = 0
            /\ last'.calls[1].metabytes = Marshal(last'.arg)
            /\ writers' = writers]_vars

\* TempFile failing with a writer pending
C20_Witness ==
    /\ SetDataFailed
    /\ last.err = "tempfile"
    /\ last.w0 # NoWriter
    /\ last.calls[1].wopen

====
